---- MODULE Spec2Model ----
(***************************************************************************)
(* Articulated-figure rig of src/src/app.component.ts (AppComponent) and   *)
(* the kinematics module (src/unnamed/part_000).                           *)
(*                                                                         *)
(* Number representation.  Angles are integers in degrees (PI = 180);      *)
(* coordinates and lengths are integers in tenths of a pixel (PX units per *)
(* pixel).  Math.cos / Math.sin are a table of TrigScale-scaled values,    *)
(* Math.atan2 is the nearest whole degree, Math.sqrt is the integer square *)
(* root; every product is rounded to the nearest unit, which stands for    *)
(* the rounding of the floating point operations.                          *)
(*                                                                         *)
(* Object identity.  Skeleton objects live in `heap`, a map from cell ids  *)
(* to skeleton values; the fields that hold a Bone tree hold a cell id, so *)
(* two fields alias exactly when they hold the same id.  Particles are     *)
(* identified by their index in physicsPoints.                             *)
(***************************************************************************)
EXTENDS Integers, Sequences, FiniteSets, TLC

(* ------------------------------ bounds --------------------------------- *)

\* UI events (everything but scheduler ticks and effect flushes) per run.
MaxOps == 3
\* gameLoop callbacks per run.
MaxTicks == 3
\* Largest durationFrames passed to startAnimation.
MaxDuration == 2
\* Size of the canvas parent element, in pixels.
CanvasWidth == 800
CanvasHeight == 600

(* ------------------------ number representation ------------------------ *)

PX == 10
PI == 180
TrigScale == 10000
NULL == -1

Abs(n) ==
    IF n < 0 THEN -n ELSE n

\* a / b rounded to the nearest integer (b > 0), halves away from zero.
RoundDiv(a, b) ==
    IF a >= 0 THEN (2 * a + b) \div (2 * b) ELSE -((2 * (-a) + b) \div (2 * b))

\* Sequencing of two statements: `first` is computed, then `rest` is the result.
Do(first, rest) ==
    IF first = first THEN rest ELSE rest

Max(a, b) ==
    IF a >= b THEN a ELSE b

Min(a, b) ==
    IF a <= b THEN a ELSE b

SinTable ==
    << 0, 175, 349, 523, 698, 872, 1045, 1219, 1392, 1564, 1736, 1908, 2079,
       2250, 2419, 2588, 2756, 2924, 3090, 3256, 3420, 3584, 3746, 3907, 4067, 4226,
       4384, 4540, 4695, 4848, 5000, 5150, 5299, 5446, 5592, 5736, 5878, 6018, 6157,
       6293, 6428, 6561, 6691, 6820, 6947, 7071, 7193, 7314, 7431, 7547, 7660, 7771,
       7880, 7986, 8090, 8192, 8290, 8387, 8480, 8572, 8660, 8746, 8829, 8910, 8988,
       9063, 9135, 9205, 9272, 9336, 9397, 9455, 9511, 9563, 9613, 9659, 9703, 9744,
       9781, 9816, 9848, 9877, 9903, 9925, 9945, 9962, 9976, 9986, 9994, 9998, 10000 >>

\* TrigScale * sin(a degrees), any integer a.
Sin(a) ==
    LET r == a % (2 * PI)
    IN  IF r <= PI \div 2 THEN SinTable[r + 1]
        ELSE IF r <= PI THEN SinTable[PI - r + 1]
        ELSE IF r <= PI + PI \div 2 THEN -SinTable[r - PI + 1]
        ELSE -SinTable[2 * PI - r + 1]

\* TrigScale * cos(a degrees).
Cos(a) ==
    Sin(a + PI \div 2)

\* The direction of the first-quadrant vector (x, y) is above the half-degree
\* mark u - 1/2 (sin(t - u + 1) + sin(t - u) > 0 exactly when t > u - 1/2).
AboveMark(y, x, u) ==
    (y * Cos(u - 1) - x * Sin(u - 1)) + (y * Cos(u) - x * Sin(u)) > 0

RECURSIVE QuadrantSearch(_, _, _, _)
\* Largest u in lo..hi with AboveMark(y, x, u), lo if there is none above lo.
QuadrantSearch(y, x, lo, hi) ==
    IF lo >= hi THEN lo
    ELSE LET mid == (lo + hi + 1) \div 2
         IN  IF AboveMark(y, x, mid) THEN QuadrantSearch(y, x, mid, hi)
             ELSE QuadrantSearch(y, x, lo, mid - 1)

\* Angle in 0..90 of the first-quadrant vector (x, y), x >= 0, y >= 0, not both 0:
\* the number of half-degree marks below the vector's direction.
QuadrantAngle(y, x) ==
    QuadrantSearch(y, x, 0, PI \div 2)

\* Math.atan2(y, x) in whole degrees, in -180..180; atan2(0, 0) = 0.
Atan2(y, x) ==
    IF x = 0 /\ y = 0 THEN 0
    ELSE IF x >= 0 /\ y >= 0 THEN QuadrantAngle(y, x)
    ELSE IF x < 0 /\ y >= 0 THEN PI - QuadrantAngle(y, -x)
    ELSE IF x < 0 THEN QuadrantAngle(-y, -x) - PI
    ELSE -QuadrantAngle(-y, x)

RECURSIVE SqrtSearch(_, _, _)
\* Largest r in lo..hi with r * r <= n.
SqrtSearch(n, lo, hi) ==
    IF lo >= hi THEN lo
    ELSE LET mid == (lo + hi + 1) \div 2
         IN  IF mid * mid <= n THEN SqrtSearch(n, mid, hi)
             ELSE SqrtSearch(n, lo, mid - 1)

\* Math.sqrt rounded to the nearest unit.
Sqrt(n) ==
    LET r == SqrtSearch(n, 0, 40000)
    IN  IF n - r * r > r THEN r + 1 ELSE r

(* ----------------------------- skeleton tree --------------------------- *)

ANATOMICAL_SCALE == 50

\* Length, in coordinate units, of a bone of `hundredths`/100 anatomical units.
BoneLength(hundredths) ==
    (ANATOMICAL_SCALE * PX * hundredths) \div 100

B(len, ang, kids) ==
    [length |-> BoneLength(len), angle |-> ang, children |-> kids]

SKELETON_TREE ==
    [ Navel             |-> B(0, 0, <<"Torso_Base_Joint", "Pelvis_Base_Joint">>),
      Torso_Base_Joint  |-> B(0, -(PI \div 2), <<"Torso">>),
      Torso             |-> B(150, 0, <<"Neck", "L_Clavicle", "R_Clavicle">>),
      Neck              |-> B(50, 0, <<"Head">>),
      Head              |-> B(100, 0, <<>>),
      L_Clavicle        |-> B(75, -(PI \div 2), <<"L_Shoulder">>),
      L_Shoulder        |-> B(150, 0, <<"L_Forearm">>),
      L_Forearm         |-> B(125, 0, <<"L_Hand">>),
      L_Hand            |-> B(100, 0, <<>>),
      R_Clavicle        |-> B(75, PI \div 2, <<"R_Shoulder">>),
      R_Shoulder        |-> B(150, 0, <<"R_Forearm">>),
      R_Forearm         |-> B(125, 0, <<"R_Hand">>),
      R_Hand            |-> B(100, 0, <<>>),
      Pelvis_Base_Joint |-> B(0, PI \div 2, <<"Pelvis">>),
      Pelvis            |-> B(100, 0, <<"L_Hip_Joint", "R_Hip_Joint">>),
      L_Hip_Joint       |-> B(50, PI \div 2, <<"L_Hip_Base_Joint">>),
      L_Hip_Base_Joint  |-> B(0, -(PI \div 2), <<"L_Hip">>),
      L_Hip             |-> B(175, 0, <<"L_Calf">>),
      L_Calf            |-> B(175, 0, <<"L_Ankle_Joint">>),
      L_Ankle_Joint     |-> B(0, PI \div 2, <<"L_Foot">>),
      L_Foot            |-> B(100, 0, <<>>),
      R_Hip_Joint       |-> B(50, -(PI \div 2), <<"R_Hip_Base_Joint">>),
      R_Hip_Base_Joint  |-> B(0, PI \div 2, <<"R_Hip">>),
      R_Hip             |-> B(175, 0, <<"R_Calf">>),
      R_Calf            |-> B(175, 0, <<"R_Ankle_Joint">>),
      R_Ankle_Joint     |-> B(0, -(PI \div 2), <<"R_Foot">>),
      R_Foot            |-> B(100, 0, <<>>) ]

\* Name of the root bone of SKELETON_TREE.
Root == "Navel"

Bones == DOMAIN SKELETON_TREE

Range(s) ==
    {s[i] : i \in DOMAIN s}

\* The parent of every bone: the bone whose children hold it, "null" for the root.
ParentTable ==
    [c \in Bones |->
        IF \E b \in Bones : c \in Range(SKELETON_TREE[b].children)
        THEN CHOOSE b \in Bones : c \in Range(SKELETON_TREE[b].children)
        ELSE "null"]

\* findParentBone(root, childName): the bone whose children hold childName, or
\* the string "null" for the root and for unknown names.
findParentBone(childName) ==
    IF childName \in Bones THEN ParentTable[childName] ELSE "null"


(* ------------------------ skeleton values and heap --------------------- *)

\* A Bone tree's mutable part: each bone's local angle and visibility (the
\* topology and the lengths are those of SKELETON_TREE and never change).
\* createVisibleSkeleton(SKELETON_TREE).
createVisibleSkeleton ==
    [angle |-> [b \in Bones |-> SKELETON_TREE[b].angle],
     visible |-> [b \in Bones |-> TRUE]]

\* Math.atan(0.5 S / (1.75 S + 1.75 S)) of createTensionPose.
legAngle ==
    Atan2(ANATOMICAL_SCALE * 50, ANATOMICAL_SCALE * 175 + ANATOMICAL_SCALE * 175)

createTensionPose ==
    [createVisibleSkeleton EXCEPT
        !.angle["L_Shoulder"] = PI \div 2,
        !.angle["R_Shoulder"] = -(PI \div 2),
        !.angle["L_Forearm"] = 0,
        !.angle["R_Forearm"] = 0,
        !.angle["L_Hip"] = legAngle,
        !.angle["R_Hip"] = -legAngle,
        !.angle["L_Calf"] = 0,
        !.angle["R_Calf"] = 0,
        !.angle["L_Foot"] = -legAngle,
        !.angle["R_Foot"] = legAngle]

\* Heap cells.  initialSkeleton and tensionPoseSkeleton are the readonly fields:
\* their cells are allocated by the constructor and the fields never change.
initialSkeleton == 0
tensionPoseSkeleton == 1
\* Canonical cells of the object held by the skeleton signal and of the object
\* held by animationState.startSkeleton, and the cell a fresh clone is built in.
LiveCell == 2
StartCell == 3
FreshCell == 4

ReadonlyCells == {initialSkeleton, tensionPoseSkeleton}

Cells == ReadonlyCells \cup {LiveCell, StartCell, FreshCell}

\* Content of a cell no field refers to.
Unused ==
    [angle |-> [b \in Bones |-> 0], visible |-> [b \in Bones |-> FALSE]]

\* deepClone(obj): JSON.parse(JSON.stringify(obj)) builds a new object with the
\* same content; the heap with that object in FreshCell.
deepClone(h, cell) ==
    [h EXCEPT ![FreshCell] = h[cell]]

\* Renaming of the cells after a handler has run (object identities are kept,
\* unreachable objects are collected): the live object moves to LiveCell, the
\* start snapshot to StartCell, unless they are a readonly object or each other.
LiveRef(live) ==
    IF live \in ReadonlyCells THEN live ELSE LiveCell

StartRef(live, start) ==
    IF start = NULL \/ start \in ReadonlyCells THEN start
    ELSE IF start = live THEN LiveRef(live)
    ELSE StartCell

Collect(h, live, start) ==
    [c \in Cells |->
        IF c \in ReadonlyCells THEN h[c]
        ELSE IF c = LiveCell /\ LiveRef(live) = LiveCell THEN h[live]
        ELSE IF c = StartCell /\ StartRef(live, start) = StartCell THEN h[start]
        ELSE Unused]

\* findBone(root, name) !== null.
findBone(name) ==
    name \in Bones

(* --------------------------- global pose resolver ---------------------- *)

RECURSIVE computeGlobalPositions(_, _, _, _, _)
RECURSIVE ResolveChildren(_, _, _, _, _, _)

\* computeGlobalPositions(bone, parentX, parentY, parentAngle) on a tree with
\* local angles `ang`: globalPos and globalAngle of bone and of its descendants.
computeGlobalPositions(ang, bone, parentX, parentY, parentAngle) ==
    LET globalAngle == parentAngle + ang[bone]
        endX == parentX + RoundDiv(Cos(globalAngle) * SKELETON_TREE[bone].length, TrigScale)
        endY == parentY + RoundDiv(Sin(globalAngle) * SKELETON_TREE[bone].length, TrigScale)
    IN  (bone :> [start |-> [x |-> parentX, y |-> parentY],
                  end |-> [x |-> endX, y |-> endY],
                  globalAngle |-> globalAngle])
        @@ ResolveChildren(ang, SKELETON_TREE[bone].children, 1, endX, endY, globalAngle)

\* bone.children.forEach(child => computeGlobalPositions(child, endX, endY, globalAngle))
ResolveChildren(ang, kids, i, endX, endY, globalAngle) ==
    IF i > Len(kids) THEN <<>>
    ELSE computeGlobalPositions(ang, kids[i], endX, endY, globalAngle)
         @@ ResolveChildren(ang, kids, i + 1, endX, endY, globalAngle)

\* floorY = parentRect.height * 0.85
FloorY ==
    (CanvasHeight * PX * 85) \div 100

getLegLength ==
    SKELETON_TREE["Pelvis"].length + SKELETON_TREE["L_Hip"].length
        + SKELETON_TREE["L_Calf"].length

\* navelX = parentRect.width / 2 + navelOffsetX()
NavelX(offsetX) ==
    (CanvasWidth * PX) \div 2 + offsetX

\* navelY = floorY - getLegLength() - navelOffsetY()
NavelY(offsetY) ==
    FloorY - getLegLength - offsetY

\* The resolved pose of a skeleton anchored at the navel position.
ResolvePose(ang, offsetX, offsetY) ==
    computeGlobalPositions(ang, Root, NavelX(offsetX), NavelY(offsetY), 0)


(* ------------------------- physics (Collapse mode) --------------------- *)

RECURSIVE PreOrder(_)
RECURSIVE PreOrderChildren(_, _)

\* The bones of the subtree of `bone` in the order processBone / traverse /
\* flatten visit them: the bone, then each child's subtree in turn.
PreOrder(bone) ==
    <<bone>> \o PreOrderChildren(SKELETON_TREE[bone].children, 1)

PreOrderChildren(kids, i) ==
    IF i > Len(kids) THEN <<>>
    ELSE PreOrder(kids[i]) \o PreOrderChildren(kids, i + 1)

\* getOrCreatePoint without the pointMap lookup: every call makes a new point.
getOrCreatePoint_NoShare(points, pos, initialVelocity) ==
    [points |-> Append(points,
                    [x |-> pos.x, y |-> pos.y,
                     oldX |-> pos.x - RoundDiv(initialVelocity.x, 60),
                     oldY |-> pos.y - RoundDiv(initialVelocity.y, 60),
                     isPinned |-> FALSE]),
     index |-> Len(points) + 1]

\* getOrCreatePoint(pos): the points after the call and the index of the point
\* of `pos`.  The key `${pos.x.toFixed(2)},${pos.y.toFixed(2)}` is the position
\* itself at the model's resolution; the point list holds each key once.
getOrCreatePoint(points, pos, initialVelocity) ==
    IF \E i \in DOMAIN points : points[i].x = pos.x /\ points[i].y = pos.y
    THEN [points |-> points,
          index |-> CHOOSE i \in DOMAIN points : points[i].x = pos.x /\ points[i].y = pos.y]
    ELSE [points |-> Append(points,
                        [x |-> pos.x, y |-> pos.y,
                         oldX |-> pos.x - RoundDiv(initialVelocity.x, 60),
                         oldY |-> pos.y - RoundDiv(initialVelocity.y, 60),
                         isPinned |-> FALSE]),
          index |-> Len(points) + 1]

RECURSIVE processBone_EveryBone(_, _, _, _, _)

\* processBone without the test of bone.length: a stick for every bone.
processBone_EveryBone(order, i, pose, graph, initialVelocity) ==
    IF i > Len(order) THEN graph
    ELSE LET bone == order[i]
             g0 == getOrCreatePoint(graph.points, pose[bone].start, initialVelocity)
             g1 == getOrCreatePoint(g0.points, pose[bone].end, initialVelocity)
             next == [points |-> g1.points,
                      sticks |-> Append(graph.sticks,
                                     [p0 |-> g0.index, p1 |-> g1.index,
                                      length |-> SKELETON_TREE[bone].length]),
                      map |-> (bone :> [p0 |-> g0.index, p1 |-> g1.index]) @@ graph.map]
         IN  Do(next, processBone_EveryBone(order, i + 1, pose, next, initialVelocity))

RECURSIVE processBone(_, _, _, _, _)

\* processBone over the bones order[i..]: `graph` is the particle graph built
\* so far, `pose` the resolved frame skeleton.
processBone(order, i, pose, graph, initialVelocity) ==
    IF i > Len(order) THEN graph
    ELSE LET bone == order[i]
             g0 == getOrCreatePoint(graph.points, pose[bone].start, initialVelocity)
             g1 == getOrCreatePoint(g0.points, pose[bone].end, initialVelocity)
             sticks == IF SKELETON_TREE[bone].length > 0
                       THEN Append(graph.sticks,
                                [p0 |-> g0.index, p1 |-> g1.index,
                                 length |-> SKELETON_TREE[bone].length])
                       ELSE graph.sticks
             next == [points |-> g1.points, sticks |-> sticks,
                      map |-> (bone :> [p0 |-> g0.index, p1 |-> g1.index]) @@ graph.map]
         IN  Do(next, processBone(order, i + 1, pose, next, initialVelocity))

\* initializeCollapseFromCurrentPose(initialVelocity) for the live skeleton with
\* angles `ang`: the new physicsPoints, physicsSticks and boneToPointsMap.
initializeCollapseFromCurrentPose(ang, offsetX, offsetY, initialVelocity) ==
    processBone(PreOrder(Root), 1, ResolvePose(ang, offsetX, offsetY),
        [points |-> <<>>, sticks |-> <<>>, map |-> <<>>], initialVelocity)

\* gravity = 9.8 * 100 * deltaTime * deltaTime, deltaTime in milliseconds here.
Gravity(deltaTimeMs) ==
    RoundDiv(98 * PX * deltaTimeMs * deltaTimeMs, 100000)

\* The Verlet position update of one point.
Integrate(p, gravity) ==
    IF p.isPinned THEN p
    ELSE [p EXCEPT !.oldX = p.x, !.oldY = p.y,
                   !.x = p.x + (p.x - p.oldX),
                   !.y = p.y + (p.y - p.oldY) + gravity]

\* One stick with the correction turned round: p0 += offset, p1 -= offset.
RelaxStick_Apart(points, s) ==
    LET dx == points[s.p1].x - points[s.p0].x
        dy == points[s.p1].y - points[s.p0].y
        dist == Sqrt(dx * dx + dy * dy)
    IN  IF dist = 0 THEN points
        ELSE LET diff == s.length - dist
                 offsetX == RoundDiv(dx * diff, 2 * dist)
                 offsetY == RoundDiv(dy * diff, 2 * dist)
             IN  [points EXCEPT ![s.p0].x = @ + offsetX, ![s.p0].y = @ + offsetY,
                                ![s.p1].x = @ - offsetX, ![s.p1].y = @ - offsetY]

\* One stick of the relaxation loop.
RelaxStick(points, s) ==
    LET dx == points[s.p1].x - points[s.p0].x
        dy == points[s.p1].y - points[s.p0].y
        dist == Sqrt(dx * dx + dy * dy)
    IN  IF dist = 0 THEN points
        ELSE LET diff == s.length - dist
                 offsetX == RoundDiv(dx * diff, 2 * dist)
                 offsetY == RoundDiv(dy * diff, 2 * dist)
                 moved0 == IF points[s.p0].isPinned THEN points
                           ELSE [points EXCEPT ![s.p0].x = @ - offsetX,
                                               ![s.p0].y = @ - offsetY]
             IN  IF moved0[s.p1].isPinned THEN moved0
                 ELSE [moved0 EXCEPT ![s.p1].x = @ + offsetX,
                                     ![s.p1].y = @ + offsetY]

RECURSIVE RelaxPass(_, _, _)

\* for (const s of this.physicsSticks) { ... }, from stick i on.
RelaxPass(points, sticks, i) ==
    IF i > Len(sticks) THEN points
    ELSE LET next == RelaxStick(points, sticks[i])
         IN  Do(next, RelaxPass(next, sticks, i + 1))

\* Number of relaxation iterations of updateCollapse.
RelaxIterations == 5

RECURSIVE Relax(_, _, _)

\* for (let i = 0; i < 5; i++) { ... }: `n` iterations.
Relax(points, sticks, n) ==
    IF n = 0 THEN points
    ELSE LET next == RelaxPass(points, sticks, 1)
         IN  Do(next, Relax(next, sticks, n - 1))

\* if (p.y > floorY) p.y = floorY
FloorClamp(p) ==
    IF p.y > FloorY THEN [p EXCEPT !.y = FloorY] ELSE p

\* updateCollapse(deltaTime): the points after one physics step.
updateCollapse(points, sticks, deltaTimeMs) ==
    LET integrated == [i \in DOMAIN points |-> Integrate(points[i], Gravity(deltaTimeMs))]
        relaxed == Relax(integrated, sticks, RelaxIterations)
    IN  [i \in DOMAIN relaxed |-> FloorClamp(relaxed[i])]

\* calculateGlobalAngle with the arguments of atan2 exchanged.
calculateGlobalAngle_Swapped(points, map, boneName) ==
    IF boneName \notin DOMAIN map THEN 0
    ELSE Atan2(points[map[boneName].p1].x - points[map[boneName].p0].x,
               points[map[boneName].p1].y - points[map[boneName].p0].y)

\* calculateGlobalAngle(boneName): atan2 of the bone's particle pair, 0 for a
\* bone without particles (the memo table only saves recomputation).
calculateGlobalAngle(points, map, boneName) ==
    IF boneName \notin DOMAIN map THEN 0
    ELSE Atan2(points[map[boneName].p1].y - points[map[boneName].p0].y,
               points[map[boneName].p1].x - points[map[boneName].p0].x)

RECURSIVE traverse(_, _, _, _)
RECURSIVE TraverseChildren(_, _, _, _, _)

\* traverse(bone, parentGlobalAngle): the angles written to the subtree of bone.
traverse(points, map, bone, parentGlobalAngle) ==
    LET globalAngle == calculateGlobalAngle(points, map, bone)
    IN  (bone :> globalAngle - parentGlobalAngle)
        @@ TraverseChildren(points, map, SKELETON_TREE[bone].children, 1, globalAngle)

TraverseChildren(points, map, kids, i, globalAngle) ==
    IF i > Len(kids) THEN <<>>
    ELSE traverse(points, map, kids[i], globalAngle)
         @@ TraverseChildren(points, map, kids, i + 1, globalAngle)

\* updateSkeletonAnglesFromPhysics(): the angles it writes, in place, to the
\* live skeleton object.
updateSkeletonAnglesFromPhysics(points, map) ==
    LET navelAngle == IF Root \in DOMAIN map
                      THEN Atan2(points[map[Root].p1].y - points[map[Root].p0].y,
                                 points[map[Root].p1].x - points[map[Root].p0].x)
                      ELSE 0
    IN  traverse(points, map, Root, navelAngle)


(* ------------------------------ static tables -------------------------- *)

anatomicalGroups ==
    [ CORE  |-> <<"Navel", "Torso", "Pelvis", "Neck", "Head">>,
      L_ARM |-> <<"L_Clavicle", "L_Shoulder", "L_Forearm", "L_Hand">>,
      R_ARM |-> <<"R_Clavicle", "R_Shoulder", "R_Forearm", "R_Hand">>,
      L_LEG |-> <<"L_Hip_Joint", "L_Hip", "L_Calf", "L_Foot">>,
      R_LEG |-> <<"R_Hip_Joint", "R_Hip", "L_Calf", "R_Foot">> ]

boneToGroupMap ==
    [ Torso |-> "CORE", Neck |-> "CORE", Head |-> "CORE",
      L_Shoulder |-> "L_ARM", L_Forearm |-> "L_ARM", L_Hand |-> "L_ARM",
      R_Shoulder |-> "R_ARM", R_Forearm |-> "R_ARM", R_Hand |-> "R_ARM",
      L_Hip |-> "L_LEG", L_Calf |-> "L_LEG", L_Foot |-> "L_LEG",
      R_Hip |-> "R_LEG", R_Calf |-> "R_LEG", R_Foot |-> "R_LEG" ]

controlGroups ==
    [ Core        |-> <<"Navel", "Torso", "Neck">>,
      Left_Arm    |-> <<"L_Shoulder", "L_Forearm", "L_Hand">>,
      Right_Arm   |-> <<"R_Shoulder", "R_Forearm", "R_Hand">>,
      Left_Leg    |-> <<"L_Hip", "L_Calf", "L_Foot">>,
      Right_Leg   |-> <<"R_Hip", "R_Calf", "R_Foot">> ]

\* The `name` of each control group.
GroupNames ==
    [ Core |-> "Core", Left_Arm |-> "Left Arm", Right_Arm |-> "Right Arm",
      Left_Leg |-> "Left Leg", Right_Leg |-> "Right Leg" ]

\* controlGroups.find(g => g.name === groupName): its key, or "null".
FindGroupByName(groupName) ==
    IF \E g \in DOMAIN GroupNames : GroupNames[g] = groupName
    THEN CHOOSE g \in DOMAIN GroupNames : GroupNames[g] = groupName
    ELSE "null"

\* controlGroups.find(g => g.bones.includes(name)): its key, or "null".
FindGroupOfBone(name) ==
    IF \E g \in DOMAIN controlGroups : name \in Range(controlGroups[g])
    THEN CHOOSE g \in DOMAIN controlGroups : name \in Range(controlGroups[g])
    ELSE "null"

\* getBonesInGroup(groupName)
getBonesInGroup(groupName) ==
    IF FindGroupByName(groupName) = "null" THEN {}
    ELSE Range(controlGroups[FindGroupByName(groupName)])

Anchors == {"Ground X", "Ground Y", "Global Rotation"}

\* The bones with an entry in boneMetadata (controllableBones).
controllableBones ==
    {"Navel", "Torso", "Neck", "L_Shoulder", "R_Shoulder", "L_Forearm", "R_Forearm",
     "L_Hand", "R_Hand", "L_Hip", "R_Hip", "L_Calf", "R_Calf", "L_Foot", "R_Foot"}

\* boneMetadata.has(name)
HasMetadata(name) ==
    name \in controllableBones \cup Anchors

lockableBones == {"L_Foot", "R_Foot", "L_Hand", "R_Hand"}

\* boneName.endsWith('Foot')
EndsWithFoot(boneName) ==
    boneName \in {"L_Foot", "R_Foot"}

\* One keyboard step of a bone angle: meta.step * 0.01 radians is below the
\* resolution of the model's angles and is taken as the smallest angle.
BoneKeyStep == 1
\* One keyboard step of Global Rotation (meta.step = 0.01 radians), likewise.
RotationKeyStep == 1
\* One keyboard step of Ground X / Ground Y: meta.step = 1 pixel.
GroundKeyStep == PX

\* Milliseconds between two animation frames.
FrameMs == 16

(* ------------------------------- inputs -------------------------------- *)

\* Bones the UI events of a run name: one inside a lockable chain, one effector.
EditBones == {"L_Calf", "L_Foot"}
\* (angle, event.type === 'input') pairs passed to setBoneAngle.
EditValues == {<<45, FALSE>>}
\* (angle, event.type === 'input') pairs passed to setAnchorValue for Global Rotation.
RotationValues == {<<200, TRUE>>}
\* Offsets passed to setAnchorValue for Ground X / Ground Y.
OffsetValues == {25 * PX}
\* Anchors passed to setAnchorValue with an offset.
OffsetAnchors == {"Ground Y"}
\* Names passed to toggleLock: two whitelisted effectors and one other bone.
LockNames == {"L_Foot", "R_Hand", "Head"}
\* Names passed to resetGroup.
ResetNames == {"Left Leg", "Tail"}
\* Controls the UI makes active.
ControlNames == {"L_Calf", "L_Foot", "Ground X"}
\* event.key values; "Backquote" is the backquote key.
Keys == {"Backquote", "ArrowUp"}
\* (targetSkeleton, targetMode) pairs passed to startAnimation.
Targets == {<<initialSkeleton, "T-Pose">>, <<tensionPoseSkeleton, "Tension">>}

(* ------------------------------- state --------------------------------- *)

VARIABLES
    ctx,                \* the canvas context is set (ngAfterViewInit has run)
    heap,               \* cell id -> skeleton object
    skeleton,           \* the skeleton signal: cell id of the live skeleton
    showCharacterSheet,
    motionMode,
    lastAdjustedGroup,
    activeControl,
    navelOffsetX,
    navelOffsetY,
    lockedBones,        \* effector name -> [position |-> [x, y]]
    lockedChainCache,
    physicsPoints,
    physicsSticks,
    boneToPointsMap,
    animationFrameId,
    lastTimestamp,      \* 0, or 1 for the time of the previous frame
    animationState,
    frameQueue,         \* ids of the gameLoop callbacks requestAnimationFrame holds
    effectDirty,        \* the constructor's effect is scheduled to run
    ops,                \* history: number of UI events so far
    ticks,              \* history: number of gameLoop callbacks so far
    sinceStart,         \* history: gameLoop callbacks since the last startAnimation
    interrupted,        \* history: setCollapseMode ran during the transition in animationState
    probe               \* a solver or relaxation call on its own: its inputs and its result

vars ==
    <<ctx, heap, skeleton, showCharacterSheet, motionMode, lastAdjustedGroup,
      activeControl, navelOffsetX, navelOffsetY, lockedBones, lockedChainCache,
      physicsPoints, physicsSticks, boneToPointsMap, animationFrameId, lastTimestamp,
      animationState, frameQueue, effectDirty, ops, ticks, sinceStart, interrupted,
      probe>>

physicsVars ==
    <<physicsPoints, physicsSticks, boneToPointsMap>>

schedulerVars ==
    <<animationFrameId, lastTimestamp, frameQueue>>

heapVars ==
    <<heap, skeleton, animationState>>

\* The component after construction.
AppInit ==
    /\ ctx = FALSE
    /\ heap = [c \in Cells |->
                 IF c = initialSkeleton THEN createVisibleSkeleton
                 ELSE IF c \in {tensionPoseSkeleton, LiveCell} THEN createTensionPose
                 ELSE Unused]
    /\ skeleton = LiveCell
    /\ showCharacterSheet = FALSE
    /\ motionMode = "Tension"
    /\ lastAdjustedGroup = "null"
    /\ activeControl = "null"
    /\ navelOffsetX = 0
    /\ navelOffsetY = 0
    /\ lockedBones = <<>>
    /\ lockedChainCache = {}
    /\ physicsPoints = <<>>
    /\ physicsSticks = <<>>
    /\ boneToPointsMap = <<>>
    /\ animationFrameId = NULL
    /\ lastTimestamp = 0
    /\ animationState = [active |-> FALSE, startSkeleton |-> NULL, targetSkeleton |-> NULL,
                         startOffsets |-> [x |-> 0, y |-> 0],
                         targetOffsets |-> [x |-> 0, y |-> 0],
                         durationFrames |-> 0, currentFrame |-> 0, targetMode |-> "null"]
    /\ frameQueue = {}
    /\ effectDirty = FALSE
    /\ ops = 0
    /\ ticks = 0
    /\ sinceStart = 0
    /\ interrupted = FALSE

\* No solver or relaxation call is looked at on its own.
NoProbe ==
    [kind |-> "none", done |-> TRUE]

Init ==
    /\ AppInit
    /\ probe = NoProbe


(* ------------------------- lock / constraint manager ------------------- *)

RECURSIVE PathToRoot(_)

\* The names pushed by the while loop of buildLockedChainCache, from `current`.
PathToRoot(current) ==
    IF current = "null" \/ current = Root THEN {}
    ELSE {current} \cup PathToRoot(findParentBone(current))

\* buildLockedChainCache without the walk: the locked effectors alone.
buildLockedChainCache_NoWalk(locks) ==
    DOMAIN locks

\* buildLockedChainCache(root): the cache for the lock set `locks`.
buildLockedChainCache(locks) ==
    UNION {PathToRoot(IF findBone(name) THEN name ELSE "null") : name \in DOMAIN locks}

\* isBoneInLockedChain(boneName, checkEndEffector)
isBoneInLockedChain(boneName, checkEndEffector) ==
    IF ~checkEndEffector /\ boneName \in DOMAIN lockedBones THEN FALSE
    ELSE boneName \in lockedChainCache

\* The pin taken from the effector itself: boneToLock.globalPos.end.
LockPin_OwnTip(ang, offsetX, offsetY, boneName) ==
    ResolvePose(ang, offsetX, offsetY)[boneName].end

\* The pin toggleLock captures for boneName: the resolved end of the effector's
\* parent bone, { ...parentBone.globalPos.end }.
LockPin(ang, offsetX, offsetY, boneName) ==
    ResolvePose(ang, offsetX, offsetY)[findParentBone(boneName)].end

\* locks without the entries of `names`.
DeleteLocks(locks, names) ==
    [k \in DOMAIN locks \ names |-> locks[k]]

\* ikTargets.forEach(...): the pin of every foot lock gets y = floorY.  ikTargets
\* is new Map(this.lockedBones()), a copy of the map that shares its entry
\* objects, so the assignment writes the entries of lockedBones.
ClampFootTargets(locks) ==
    [k \in DOMAIN locks |->
        IF EndsWithFoot(k) THEN [locks[k] EXCEPT !.position.y = FloorY] ELSE locks[k]]

\* drawInteractiveModel(): the state it leaves (the IK solution and the resolved
\* pose live in frameSkeleton, a per-frame copy that is dropped).
drawInteractiveModel(locks) ==
    [cache |-> buildLockedChainCache(locks), locks |-> ClampFootTargets(locks)]

\* draw(), with ctx set: the character sheet and the ragdoll write no state.
draw(sheet, mode, locks, cache) ==
    IF sheet THEN [cache |-> cache, locks |-> locks]
    ELSE IF mode = "Collapse" THEN [cache |-> cache, locks |-> locks]
    ELSE drawInteractiveModel(locks)

(* ----------------------------- two-bone IK solver ----------------------- *)

\* The value NaN of an angle (0 / 0 under Math.acos), outside every angle.
NaN == 999999

\* c * TrigScale / den rounded, for 0 <= c < den, in steps that stay in 32 bits.
ScaledFraction(c, den) ==
    LET hi == (c * 100) \div den
        lo == RoundDiv(((c * 100) % den) * 100, den)
    IN  hi * 100 + lo

\* TrigScale * Math.max(-1, Math.min(1, num / den)) for den >= 0; NaN for 0 / 0.
ClampedRatio(num, den) ==
    IF den = 0 /\ num = 0 THEN NaN
    ELSE IF num >= den THEN TrigScale
    ELSE IF -num >= den THEN -TrigScale
    ELSE IF num >= 0 THEN ScaledFraction(num, den)
    ELSE -ScaledFraction(-num, den)

\* The angle of cosine c / TrigScale is beyond the mark between u - 1 and u.
BeyondMark(c, u) ==
    Cos(u - 1) + Cos(u) > 2 * c

RECURSIVE AcosSearch(_, _, _)
\* Largest u in lo..hi with BeyondMark(c, u), lo if there is none above lo.
AcosSearch(c, lo, hi) ==
    IF lo >= hi THEN lo
    ELSE LET mid == (lo + hi + 1) \div 2
         IN  IF BeyondMark(c, mid) THEN AcosSearch(c, mid, hi)
             ELSE AcosSearch(c, lo, mid - 1)

\* Math.acos(c / TrigScale) in whole degrees, 0..180; acos(NaN) = NaN.
Acos(c) ==
    IF c = NaN THEN NaN ELSE AcosSearch(c, 0, PI)

\* getIKChainNames(name): the two bones of the chain, <<>> for null.
getIKChainNames(name) ==
    IF name = "R_Foot" THEN <<"R_Hip", "R_Calf">>
    ELSE IF name = "L_Foot" THEN <<"L_Hip", "L_Calf">>
    ELSE IF name = "R_Hand" THEN <<"R_Shoulder", "R_Forearm">>
    ELSE IF name = "L_Hand" THEN <<"L_Shoulder", "L_Forearm">>
    ELSE <<>>

\* bendDirection of solveTwoBoneIK.
BendDirection(endEffectorName) ==
    IF endEffectorName = "L_Foot" \/ endEffectorName = "L_Hand" THEN -1 ELSE 1

\* if (dist > l1 + l2), on the squares.
OutOfReach(l1, l2, dx, dy) ==
    dx * dx + dy * dy > (l1 + l2) * (l1 + l2)

\* The over-extended branch with bone1.angle = angleToTarget, the parent's world
\* angle not subtracted.
IKExtended_NoParent(dx, dy, parentGlobalAngle) ==
    [bone1 |-> Atan2(dy, dx), bone2 |-> 0]

\* The over-extended branch of solveTwoBoneIK: the angles written to the bones.
IKExtended(dx, dy, parentGlobalAngle) ==
    [bone1 |-> Atan2(dy, dx) - parentGlobalAngle, bone2 |-> 0]

\* The interior angle with the numerator's sign turned: acos of the negated ratio.
InteriorAngle_Supplement(l1, l2, distSq) ==
    Acos(ClampedRatio(distSq - l1 * l1 - l2 * l2, 2 * l1 * l2))

\* angle2 of solveTwoBoneIK: the interior angle between the two bones.
InteriorAngle(l1, l2, distSq) ==
    Acos(ClampedRatio(l1 * l1 + l2 * l2 - distSq, 2 * l1 * l2))

\* The reachable branch of solveTwoBoneIK: the angles written to the bones
\* (dist * dist is dx * dx + dy * dy).
IKBent(l1, l2, dx, dy, parentGlobalAngle, bendDirection) ==
    LET distSq == dx * dx + dy * dy
        dist == Sqrt(distSq)
        angle1 == Acos(ClampedRatio(distSq + l1 * l1 - l2 * l2, 2 * dist * l1))
        angle2 == InteriorAngle(l1, l2, distSq)
        angleToTarget == Atan2(dy, dx)
    IN  [bone1 |-> IF angle1 = NaN THEN NaN
                   ELSE angleToTarget + bendDirection * angle1 - parentGlobalAngle,
         bone2 |-> IF angle2 = NaN THEN NaN ELSE bendDirection * (angle2 - PI)]

\* solveTwoBoneIK from the chain root: (dx, dy) is targetPos - chainRootPos.
TwoBoneAngles(l1, l2, dx, dy, parentGlobalAngle, bendDirection) ==
    IF OutOfReach(l1, l2, dx, dy) THEN IKExtended(dx, dy, parentGlobalAngle)
    ELSE IKBent(l1, l2, dx, dy, parentGlobalAngle, bendDirection)

\* solveTwoBoneIK(root, endEffectorName, targetPos) on the frame skeleton with
\* angles ang, whose root starts at (rootX, rootY): the angles after the call.
solveTwoBoneIK(ang, rootX, rootY, endEffectorName, targetPos) ==
    LET chainNames == getIKChainNames(endEffectorName)
    IN  IF Len(chainNames) # 2 THEN ang
        ELSE LET bone1 == chainNames[1]
                 bone2 == chainNames[2]
                 parentOfBone1 == findParentBone(bone1)
                 pose == computeGlobalPositions(ang, Root, rootX, rootY, 0)
                 chainRootPos == pose[parentOfBone1].end
                 solved == TwoBoneAngles(SKELETON_TREE[bone1].length,
                                         SKELETON_TREE[bone2].length,
                                         targetPos.x - chainRootPos.x,
                                         targetPos.y - chainRootPos.y,
                                         pose[parentOfBone1].globalAngle,
                                         BendDirection(endEffectorName))
             IN  [ang EXCEPT ![bone1] = solved.bone1, ![bone2] = solved.bone2]

\* The order in which solveAllIK looks at the targets.
IKOrder ==
    <<"L_Foot", "R_Foot", "L_Hand", "R_Hand">>

RECURSIVE SolveFrom(_, _, _, _, _)
\* solveAllIK from IKOrder[i] on.
SolveFrom(ang, rootX, rootY, targets, i) ==
    IF i > Len(IKOrder) THEN ang
    ELSE IF IKOrder[i] \in DOMAIN targets
    THEN SolveFrom(solveTwoBoneIK(ang, rootX, rootY, IKOrder[i], targets[IKOrder[i]].position),
                   rootX, rootY, targets, i + 1)
    ELSE SolveFrom(ang, rootX, rootY, targets, i + 1)

\* solveAllIK(root, targets)
solveAllIK(ang, rootX, rootY, targets) ==
    SolveFrom(ang, rootX, rootY, targets, 1)

\* drawInteractiveModel(): the angles of frameSkeleton when it is drawn, the
\* clone of the live skeleton after solveAllIK on the floor-clamped targets.
FrameAngles(ang, offsetX, offsetY, locks) ==
    solveAllIK(ang, NavelX(offsetX), NavelY(offsetY), ClampFootTargets(locks))

(* ------------------------------ pose blender ---------------------------- *)

\* lerp(start, end, amt) with amt = newFrame / durationFrames.
lerp(start, end, newFrame, durationFrames) ==
    RoundDiv((durationFrames - newFrame) * start + newFrame * end, durationFrames)

\* lerpSkeleton(current, start, target): the angles of every bone of current.
lerpSkeleton(start, target, newFrame, durationFrames) ==
    [b \in Bones |-> lerp(start.angle[b], target.angle[b], newFrame, durationFrames)]

\* The terminal test with > for >=: the snap comes one frame late.
TransitionDone_Late(newFrame, durationFrames) ==
    newFrame > durationFrames

\* if (newFrame >= state.durationFrames)
TransitionDone(newFrame, durationFrames) ==
    newFrame >= durationFrames

\* cancelAnimationFrame(id)
cancelAnimationFrame(queue, id) ==
    queue \ {id}

\* requestAnimationFrame(gameLoop): the id of the new callback.
requestAnimationFrame(queue) ==
    CHOOSE i \in 1..(Cardinality(queue) + 1) :
        i \notin queue /\ \A j \in 1..(i - 1) : j \in queue

\* updateTransitionAnimation(): the fields it writes.
updateTransitionAnimation(h, live, state, mode, frameId, queue) ==
    LET newFrame == state.currentFrame + 1
        cloned == deepClone(h, live)
        newSkel == [cloned EXCEPT ![FreshCell].angle =
                       lerpSkeleton(cloned[state.startSkeleton], cloned[state.targetSkeleton],
                                    newFrame, state.durationFrames)]
        offX == lerp(state.startOffsets.x, state.targetOffsets.x, newFrame, state.durationFrames)
        offY == lerp(state.startOffsets.y, state.targetOffsets.y, newFrame, state.durationFrames)
    IN  IF TransitionDone(newFrame, state.durationFrames)
        THEN [heap |-> deepClone(newSkel, state.targetSkeleton), skeleton |-> FreshCell,
              navelOffsetX |-> offX, navelOffsetY |-> offY,
              motionMode |-> state.targetMode,
              animationState |-> [state EXCEPT !.active = FALSE],
              animationFrameId |-> NULL,
              frameQueue |-> IF frameId # NULL THEN cancelAnimationFrame(queue, frameId)
                             ELSE queue]
        ELSE [heap |-> newSkel, skeleton |-> FreshCell,
              navelOffsetX |-> offX, navelOffsetY |-> offY,
              motionMode |-> mode,
              animationState |-> [state EXCEPT !.currentFrame = newFrame],
              animationFrameId |-> frameId,
              frameQueue |-> queue]


(* -------------------------------- actions ------------------------------ *)

\* The heap after a handler, with the objects the fields hold renamed to their
\* canonical cells.
Commit(h, live, state) ==
    /\ heap' = Collect(h, live, state.startSkeleton)
    /\ skeleton' = LiveRef(live)
    /\ animationState' = [state EXCEPT !.startSkeleton = StartRef(live, state.startSkeleton)]

\* A UI event handler runs: the view exists and the effect scheduled by the
\* previous handler has been flushed.
Event ==
    /\ ctx
    /\ ~effectDirty
    /\ ops < MaxOps
    /\ ops' = ops + 1
    /\ UNCHANGED <<ctx, ticks, probe>>

\* The request without the test of animationFrameId.
StartLoop_Unguarded ==
    /\ lastTimestamp' = 0
    /\ animationFrameId' = requestAnimationFrame(frameQueue)
    /\ frameQueue' = frameQueue \cup {requestAnimationFrame(frameQueue)}

\* if (!this.animationFrameId) { this.lastTimestamp = 0; this.animationFrameId =
\* requestAnimationFrame(this.gameLoop); }
StartLoop ==
    IF animationFrameId = NULL
    THEN /\ lastTimestamp' = 0
         /\ animationFrameId' = requestAnimationFrame(frameQueue)
         /\ frameQueue' = frameQueue \cup {requestAnimationFrame(frameQueue)}
    ELSE UNCHANGED schedulerVars

ngAfterViewInit ==
    /\ ~ctx
    /\ ctx' = TRUE
    /\ lockedChainCache' = draw(showCharacterSheet, motionMode, lockedBones, lockedChainCache).cache
    /\ lockedBones' = draw(showCharacterSheet, motionMode, lockedBones, lockedChainCache).locks
    /\ UNCHANGED <<heapVars, showCharacterSheet, motionMode, lastAdjustedGroup, activeControl,
                   navelOffsetX, navelOffsetY, physicsVars, schedulerVars, effectDirty,
                   ops, ticks, sinceStart, interrupted, probe>>

\* The effect of the constructor, flushed after a handler wrote one of the
\* signals it reads: draw() unless a transition is active or the mode is Collapse.
RunEffect ==
    /\ ctx
    /\ effectDirty
    /\ effectDirty' = FALSE
    /\ LET d == IF ~animationState.active /\ motionMode # "Collapse"
                THEN draw(showCharacterSheet, motionMode, lockedBones, lockedChainCache)
                ELSE [cache |-> lockedChainCache, locks |-> lockedBones]
       IN  /\ lockedChainCache' = d.cache
           /\ lockedBones' = d.locks
    /\ UNCHANGED <<ctx, heapVars, showCharacterSheet, motionMode, lastAdjustedGroup,
                   activeControl, navelOffsetX, navelOffsetY, physicsVars, schedulerVars,
                   ops, ticks, sinceStart, interrupted, probe>>

\* gameLoop: if (this.animationState().active) updateTransitionAnimation()
RunsTransition(active) ==
    active

\* gameLoop without the else: updatePhysics runs in every tick.
RunsPhysics_Always(active) ==
    TRUE

\* gameLoop: else updatePhysics(deltaTime)
RunsPhysics(active) ==
    ~active

\* updatePhysics without the mode test.
updatePhysics_AnyMode(mode, points, sticks, deltaTimeMs) ==
    updateCollapse(points, sticks, deltaTimeMs)

\* updatePhysics(deltaTime): the points after it.
updatePhysics(mode, points, sticks, deltaTimeMs) ==
    IF mode = "Collapse" THEN updateCollapse(points, sticks, deltaTimeMs) ELSE points

\* The callback `id` of the frame queue runs gameLoop.
gameLoop(id) ==
    /\ ctx
    /\ ~effectDirty
    /\ id \in frameQueue
    /\ ticks < MaxTicks
    /\ LET deltaTime == IF lastTimestamp = 0 THEN 0 ELSE FrameMs
           queue == frameQueue \ {id}
           t == IF RunsTransition(animationState.active)
                THEN updateTransitionAnimation(heap, skeleton, animationState, motionMode,
                                               animationFrameId, queue)
                ELSE [heap |-> heap, skeleton |-> skeleton,
                      navelOffsetX |-> navelOffsetX, navelOffsetY |-> navelOffsetY,
                      motionMode |-> motionMode, animationState |-> animationState,
                      animationFrameId |-> animationFrameId, frameQueue |-> queue]
           points == IF RunsPhysics(animationState.active)
                     THEN updatePhysics(t.motionMode, physicsPoints, physicsSticks, deltaTime)
                     ELSE physicsPoints
           d == draw(showCharacterSheet, t.motionMode, lockedBones, lockedChainCache)
       IN  /\ Commit(t.heap, t.skeleton, t.animationState)
           /\ navelOffsetX' = t.navelOffsetX
           /\ navelOffsetY' = t.navelOffsetY
           /\ motionMode' = t.motionMode
           /\ physicsPoints' = points
           /\ lockedChainCache' = d.cache
           /\ lockedBones' = d.locks
           /\ animationFrameId' = requestAnimationFrame(t.frameQueue)
           /\ frameQueue' = t.frameQueue \cup {requestAnimationFrame(t.frameQueue)}
           /\ effectDirty' = (t.skeleton # skeleton \/ t.navelOffsetX # navelOffsetX
                              \/ t.navelOffsetY # navelOffsetY)
    /\ lastTimestamp' = 1
    /\ ticks' = ticks + 1
    /\ sinceStart' = sinceStart + 1
    /\ UNCHANGED <<ctx, showCharacterSheet, lastAdjustedGroup, activeControl,
                   physicsSticks, boneToPointsMap, ops, interrupted, probe>>

\* The snapshot without the clone: startSkeleton: this.skeleton().
StartSnapshot_Alias(h, live) ==
    [heap |-> h, ref |-> live]

\* startAnimation: the snapshot stored as startSkeleton, deepClone(this.skeleton()):
\* the heap holding it and the cell it is in.
StartSnapshot(h, live) ==
    [heap |-> deepClone(h, live), ref |-> FreshCell]

\* The snapshot taken before the read-back: the clone holds the angles the live
\* skeleton had when Collapse was entered.
StartFromPose_Stale(h, live, mode, points, map) ==
    [heap |-> IF mode = "Collapse"
              THEN [deepClone(h, live) EXCEPT
                        ![live].angle = updateSkeletonAnglesFromPhysics(points, map)]
              ELSE deepClone(h, live),
     ref |-> FreshCell]

\* startAnimation: the heap and the start snapshot, for the live skeleton `live`:
\* the angles are read back from the particles first when the mode is Collapse.
StartFromPose(h, live, mode, points, map) ==
    StartSnapshot(IF mode = "Collapse"
                  THEN [h EXCEPT ![live].angle = updateSkeletonAnglesFromPhysics(points, map)]
                  ELSE h,
                  live)

startAnimation(target, durationFrames) ==
    /\ Event
    /\ LET snap == StartFromPose(heap, skeleton, motionMode, physicsPoints, boneToPointsMap)
       IN  Commit(snap.heap, skeleton,
                  [active |-> TRUE,
                   startSkeleton |-> snap.ref,
                   targetSkeleton |-> target[1],
                   startOffsets |-> [x |-> navelOffsetX, y |-> navelOffsetY],
                   targetOffsets |-> [x |-> 0, y |-> 0],
                   durationFrames |-> durationFrames,
                   currentFrame |-> 0,
                   targetMode |-> target[2]])
    /\ StartLoop
    /\ sinceStart' = 0
    /\ interrupted' = FALSE
    /\ UNCHANGED <<showCharacterSheet, motionMode, lastAdjustedGroup, activeControl,
                   navelOffsetX, navelOffsetY, lockedBones, lockedChainCache,
                   physicsVars, effectDirty>>

setCollapseMode ==
    /\ Event
    /\ motionMode' = "Collapse"
    /\ LET graph == initializeCollapseFromCurrentPose(heap[skeleton].angle, navelOffsetX,
                                                      navelOffsetY, [x |-> 0, y |-> 0])
       IN  /\ physicsPoints' = graph.points
           /\ physicsSticks' = graph.sticks
           /\ boneToPointsMap' = graph.map
    /\ StartLoop
    /\ interrupted' = animationState.active
    /\ UNCHANGED <<heapVars, showCharacterSheet, lastAdjustedGroup, activeControl,
                   navelOffsetX, navelOffsetY, lockedBones, lockedChainCache,
                   effectDirty, sinceStart>>

\* setBoneAngle: the angle written to the bone.
ClampedAngle(name, angleInRad, isSlider) ==
    IF HasMetadata(name) /\ isSlider THEN Max(-PI, Min(PI, angleInRad)) ELSE angleInRad

\* setBoneAngle: skeleton.update(...), the new skeleton object in FreshCell.
SetAngle(h, live, name, angleInRad, isSlider) ==
    IF findBone(name)
    THEN [deepClone(h, live) EXCEPT
              ![FreshCell].angle[name] = ClampedAngle(name, angleInRad, isSlider)]
    ELSE deepClone(h, live)

\* setBoneAngle: the value left in lastAdjustedGroup.
AdjustedGroup(name) ==
    IF FindGroupOfBone(name) # "null" THEN GroupNames[FindGroupOfBone(name)]
    ELSE IF name \in DOMAIN lockedBones THEN name
    ELSE lastAdjustedGroup

setBoneAngle(name, angleInRad, isSlider) ==
    /\ Event
    /\ Commit(SetAngle(heap, skeleton, name, angleInRad, isSlider), FreshCell, animationState)
    /\ lastAdjustedGroup' = AdjustedGroup(name)
    /\ effectDirty' = TRUE
    /\ UNCHANGED <<showCharacterSheet, motionMode, activeControl, navelOffsetX, navelOffsetY,
                   lockedBones, lockedChainCache, physicsVars, schedulerVars, sinceStart, interrupted>>

\* setAnchorValue('Ground X' | 'Ground Y', event)
setAnchorOffset(name, value) ==
    /\ Event
    /\ navelOffsetX' = IF name = "Ground X" THEN value ELSE navelOffsetX
    /\ navelOffsetY' = IF name = "Ground Y" THEN value ELSE navelOffsetY
    /\ lastAdjustedGroup' = "Core"
    /\ effectDirty' = (navelOffsetX' # navelOffsetX \/ navelOffsetY' # navelOffsetY)
    /\ UNCHANGED <<heapVars, showCharacterSheet, motionMode, activeControl,
                   lockedBones, lockedChainCache, physicsVars, schedulerVars, sinceStart, interrupted>>

\* setAnchorValue('Global Rotation', event): setBoneAngle('Navel', event, 'rad')
setAnchorRotation(angleInRad, isSlider) ==
    /\ Event
    /\ Commit(SetAngle(heap, skeleton, "Navel", angleInRad, isSlider), FreshCell, animationState)
    /\ lastAdjustedGroup' = "Core"
    /\ effectDirty' = TRUE
    /\ UNCHANGED <<showCharacterSheet, motionMode, activeControl, navelOffsetX, navelOffsetY,
                   lockedBones, lockedChainCache, physicsVars, schedulerVars, sinceStart, interrupted>>

\* resetToTPose: this.skeleton.set(this.deepClone(this.initialSkeleton))
TPoseSnapshot(h) ==
    [heap |-> deepClone(h, initialSkeleton), ref |-> FreshCell]

resetToTPose ==
    /\ Event
    /\ Commit(TPoseSnapshot(heap).heap, TPoseSnapshot(heap).ref,
              [animationState EXCEPT !.active = FALSE])
    /\ navelOffsetX' = 0
    /\ navelOffsetY' = 0
    /\ showCharacterSheet' = FALSE
    /\ lockedBones' = <<>>
    /\ motionMode' = "T-Pose"
    /\ effectDirty' = TRUE
    /\ interrupted' = FALSE
    /\ UNCHANGED <<lastAdjustedGroup, activeControl, lockedChainCache, physicsVars,
                   schedulerVars, sinceStart>>

clearAllLocks ==
    /\ Event
    /\ lockedBones' = <<>>
    /\ effectDirty' = TRUE
    /\ UNCHANGED <<heapVars, showCharacterSheet, motionMode, lastAdjustedGroup, activeControl,
                   navelOffsetX, navelOffsetY, lockedChainCache, physicsVars,
                   schedulerVars, sinceStart, interrupted>>

\* resetGroup with the T-Pose reference in every mode.
TargetPose_TPoseOnly(mode) ==
    initialSkeleton

\* resetGroup: the reference pose, tensionPoseSkeleton in Tension mode.
TargetPose(mode) ==
    IF mode = "Tension" THEN tensionPoseSkeleton ELSE initialSkeleton

\* resetGroup: the angles after bonesToReset.forEach(...), written in place to
\* the live skeleton object.
ResetAngles(h, live, mode, groupName) ==
    [b \in Bones |->
        IF b \in getBonesInGroup(groupName) /\ HasMetadata(b)
        THEN h[TargetPose(mode)].angle[b]
        ELSE h[live].angle[b]]

\* The body of resetGroup(groupName).
ResetGroupBody(groupName) ==
    IF FindGroupByName(groupName) = "null"
    THEN UNCHANGED <<heapVars, lockedBones, effectDirty>>
    ELSE /\ lockedBones' = DeleteLocks(lockedBones, getBonesInGroup(groupName))
         /\ Commit([heap EXCEPT ![skeleton].angle =
                        ResetAngles(heap, skeleton, motionMode, groupName)],
                   skeleton, animationState)
         /\ effectDirty' = TRUE

resetGroup(groupName) ==
    /\ Event
    /\ ResetGroupBody(groupName)
    /\ UNCHANGED <<showCharacterSheet, motionMode, lastAdjustedGroup, activeControl,
                   navelOffsetX, navelOffsetY, lockedChainCache, physicsVars,
                   schedulerVars, sinceStart, interrupted>>

setActiveControl(name) ==
    /\ Event
    /\ activeControl' = name
    /\ UNCHANGED <<heapVars, showCharacterSheet, motionMode, lastAdjustedGroup,
                   navelOffsetX, navelOffsetY, lockedBones, lockedChainCache,
                   physicsVars, schedulerVars, effectDirty, sinceStart, interrupted>>

\* handleKeyDown: the early returns before the arrow keys are looked at.
KeyBlocked ==
    \/ motionMode = "Collapse"
    \/ animationState.active
    \/ activeControl = "null"
    \/ isBoneInLockedChain(activeControl, FALSE)

\* handleKeyDown: delta for the active control.
KeyDelta(key, control) ==
    (IF key = "ArrowUp" THEN 1 ELSE -1)
        * (IF control = "Global Rotation" THEN RotationKeyStep
           ELSE IF control \in Anchors THEN GroundKeyStep
           ELSE BoneKeyStep)

\* handleKeyDown: the bone an arrow key rotates, in place.
KeyBone(control) ==
    IF control = "Global Rotation" THEN "Navel" ELSE control

handleKeyDown(key) ==
    /\ Event
    /\ IF key = "Backquote"
       THEN /\ IF lastAdjustedGroup # "null"
               THEN ResetGroupBody(lastAdjustedGroup)
               ELSE UNCHANGED <<heapVars, lockedBones, effectDirty>>
            /\ UNCHANGED <<navelOffsetX, navelOffsetY>>
       ELSE IF KeyBlocked \/ key \notin {"ArrowUp", "ArrowDown"}
       THEN UNCHANGED <<heapVars, lockedBones, effectDirty, navelOffsetX, navelOffsetY>>
       ELSE IF activeControl \in {"Ground X", "Ground Y"}
       THEN /\ navelOffsetX' = IF activeControl = "Ground X"
                               THEN navelOffsetX + KeyDelta(key, activeControl)
                               ELSE navelOffsetX
            /\ navelOffsetY' = IF activeControl = "Ground Y"
                               THEN navelOffsetY + KeyDelta(key, activeControl)
                               ELSE navelOffsetY
            /\ effectDirty' = TRUE
            /\ UNCHANGED <<heapVars, lockedBones>>
       ELSE /\ IF findBone(KeyBone(activeControl))
               THEN Commit([heap EXCEPT ![skeleton].angle[KeyBone(activeControl)] =
                                @ + KeyDelta(key, activeControl)],
                           skeleton, animationState)
               ELSE UNCHANGED heapVars
            /\ UNCHANGED <<lockedBones, effectDirty, navelOffsetX, navelOffsetY>>
    /\ UNCHANGED <<showCharacterSheet, motionMode, lastAdjustedGroup, activeControl,
                   lockedChainCache, physicsVars, schedulerVars, sinceStart, interrupted>>

\* toggleLock: the lock set after lockedBones.update(...).
ToggledLocks(locks, boneName, ang, offsetX, offsetY) ==
    IF boneName \in DOMAIN locks THEN DeleteLocks(locks, {boneName})
    ELSE IF findParentBone(boneName) # "null"
    THEN (boneName :> [position |-> LockPin(ang, offsetX, offsetY, boneName)]) @@ locks
    ELSE locks

toggleLock(boneName) ==
    /\ Event
    /\ IF boneName \notin lockableBones
       THEN UNCHANGED <<lockedBones, effectDirty>>
       ELSE /\ lockedBones' = ToggledLocks(lockedBones, boneName, heap[skeleton].angle,
                                           navelOffsetX, navelOffsetY)
            /\ effectDirty' = TRUE
    /\ UNCHANGED <<heapVars, showCharacterSheet, motionMode, lastAdjustedGroup, activeControl,
                   navelOffsetX, navelOffsetY, lockedChainCache, physicsVars,
                   schedulerVars, sinceStart, interrupted>>

toggleCharacterSheetView ==
    /\ Event
    /\ showCharacterSheet' = ~showCharacterSheet
    /\ effectDirty' = TRUE
    /\ UNCHANGED <<heapVars, motionMode, lastAdjustedGroup, activeControl,
                   navelOffsetX, navelOffsetY, lockedBones, lockedChainCache,
                   physicsVars, schedulerVars, sinceStart, interrupted>>

Next ==
    \/ ngAfterViewInit
    \/ RunEffect
    \/ \E id \in frameQueue : gameLoop(id)
    \/ \E target \in Targets, n \in 1..MaxDuration : startAnimation(target, n)
    \/ setCollapseMode
    \/ \E name \in EditBones, v \in EditValues : setBoneAngle(name, v[1], v[2])
    \/ \E name \in OffsetAnchors, v \in OffsetValues : setAnchorOffset(name, v)
    \/ \E v \in RotationValues : setAnchorRotation(v[1], v[2])
    \/ resetToTPose
    \/ clearAllLocks
    \/ \E groupName \in ResetNames : resetGroup(groupName)
    \/ \E name \in ControlNames : setActiveControl(name)
    \/ \E key \in Keys : handleKeyDown(key)
    \/ \E boneName \in LockNames : toggleLock(boneName)
    \/ toggleCharacterSheetView

Spec ==
    Init /\ [][Next]_vars

\* A scheduled effect is flushed: the steps of RunEffect, the only action that
\* clears effectDirty.
FlushEffect ==
    /\ ctx
    /\ effectDirty
    /\ effectDirty' = FALSE

\* A pending callback runs: the steps of gameLoop, the only action that counts
\* a tick.
RunFrame ==
    /\ ctx
    /\ ~effectDirty
    /\ frameQueue # {}
    /\ ticks < MaxTicks
    /\ ticks' = ticks + 1

\* The browser runs every pending animation-frame callback at the next frame,
\* and Angular flushes every scheduled effect.
FairSpec ==
    /\ Init
    /\ [][Next]_vars
    /\ WF_effectDirty(FlushEffect)
    /\ WF_ticks(RunFrame)

(* ---------------- the solver and the relaxation on their own ------------ *)

\* Targets lie at 0 .. MaxQuarter quarters of the chain's reach l1 + l2.
MaxQuarter == 5

\* (l1, l2) of the chains solved: the 100 px / 100 px chain, the legs, the arms.
ProbeChains ==
    {<<100 * PX, 100 * PX>>,
     <<SKELETON_TREE["L_Hip"].length, SKELETON_TREE["L_Calf"].length>>,
     <<SKELETON_TREE["L_Shoulder"].length, SKELETON_TREE["L_Forearm"].length>>}

\* Directions of length 5.
Directions ==
    {<<5, 0>>, <<-5, 0>>, <<0, 5>>, <<0, -5>>,
     <<3, 4>>, <<-3, 4>>, <<3, -4>>, <<-3, -4>>,
     <<4, 3>>, <<-4, 3>>, <<4, -3>>, <<-4, -3>>}

\* targetPos - chainRootPos of the calls looked at, for the chain (l1, l2).
ProbeTargets(l1, l2) ==
    {[dx |-> RoundDiv(d[1] * (l1 + l2) * q, 20), dy |-> RoundDiv(d[2] * (l1 + l2) * q, 20)] :
        d \in Directions, q \in 0..MaxQuarter}

\* The calls of solveTwoBoneIK looked at.
IKProbes ==
    {[kind |-> "ik", done |-> FALSE,
      in |-> [l1 |-> c[1], l2 |-> c[2], dx |-> t.dx, dy |-> t.dy,
              parentGlobalAngle |-> a, bendDirection |-> b],
      out |-> [bone1 |-> 0, bone2 |-> 0]] :
        c \in ProbeChains, t \in UNION {ProbeTargets(cc[1], cc[2]) : cc \in ProbeChains},
        a \in {0, PI \div 2}, b \in {-1, 1}}

\* A particle at rest.
RestPoint(px, py) ==
    [x |-> px, y |-> py, oldX |-> px, oldY |-> py, isPinned |-> FALSE]

\* The rest lengths of the sticks of the skeleton.
StickLengths ==
    {SKELETON_TREE[b].length : b \in Bones} \ {0}

\* Single sticks of rest length L stretched to 2 L, from two places.
StickProbes ==
    {[kind |-> "stick", done |-> FALSE,
      in |-> [length |-> L,
              points |-> <<RestPoint(o[1], o[2]),
                           RestPoint(o[1] + (2 * L * d[1]) \div 5, o[2] + (2 * L * d[2]) \div 5)>>],
      out |-> <<>>] :
        L \in StickLengths, d \in Directions,
        o \in {<<100 * PX, 100 * PX>>, <<400 * PX, 300 * PX>>}}

\* Angles given to the bones a pose probe varies: the Navel (Global Rotation),
\* two limb bones, the short Neck and a zero-length joint bone.
PoseChoices ==
    [Navel |-> {0, 30, -135}, L_Calf |-> {0, 45, -90}, R_Shoulder |-> {-(PI \div 2), 77},
     Neck |-> {0, 13}, L_Hip_Base_Joint |-> {-(PI \div 2), -70}]

\* The poses read back: the two reference poses with the varied bones set.
ProbePoses ==
    {[b \in Bones |-> IF b \in DOMAIN c THEN c[b] ELSE base.angle[b]] :
        base \in {createVisibleSkeleton, createTensionPose},
        c \in {f \in [DOMAIN PoseChoices -> UNION {PoseChoices[k] : k \in DOMAIN PoseChoices}] :
                   \A k \in DOMAIN PoseChoices : f[k] \in PoseChoices[k]}}

\* The round trips looked at: a live pose, and the angles read back from it.
PoseProbes ==
    {[kind |-> "pose", done |-> FALSE, in |-> [angle |-> a], out |-> a] : a \in ProbePoses}

\* Bones a press is held on: every bone of boneToGroupMap and two others.
PressNames ==
    DOMAIN boneToGroupMap \cup {"Navel", "L_Clavicle"}

\* The presses looked at: one held press, or two in a row.
PressProbes ==
    {[kind |-> "press", done |-> FALSE, in |-> [boneNames |-> n], out |-> 0] :
        n \in {<<a>> : a \in PressNames} \cup (PressNames \X PressNames)}

KernelInit ==
    /\ AppInit
    /\ probe \in IKProbes \cup StickProbes \cup PoseProbes \cup PressProbes

\* solveTwoBoneIK runs on the chain of the probe.
SolveChain ==
    /\ probe.kind = "ik"
    /\ ~probe.done
    /\ probe' = [probe EXCEPT
                    !.done = TRUE,
                    !.out = TwoBoneAngles(probe.in.l1, probe.in.l2, probe.in.dx, probe.in.dy,
                                          probe.in.parentGlobalAngle, probe.in.bendDirection)]
    /\ UNCHANGED <<ctx, heapVars, showCharacterSheet, motionMode, lastAdjustedGroup,
                   activeControl, navelOffsetX, navelOffsetY, lockedBones, lockedChainCache,
                   physicsVars, schedulerVars, effectDirty, ops, ticks, sinceStart, interrupted>>

\* The five relaxation iterations of updateCollapse run on the stick of the probe.
SettleStick ==
    /\ probe.kind = "stick"
    /\ ~probe.done
    /\ probe' = [probe EXCEPT
                    !.done = TRUE,
                    !.out = Relax(probe.in.points,
                                  <<[p0 |-> 1, p1 |-> 2, length |-> probe.in.length]>>,
                                  RelaxIterations)]
    /\ UNCHANGED <<ctx, heapVars, showCharacterSheet, motionMode, lastAdjustedGroup,
                   activeControl, navelOffsetX, navelOffsetY, lockedBones, lockedChainCache,
                   physicsVars, schedulerVars, effectDirty, ops, ticks, sinceStart, interrupted>>

\* setCollapseMode builds the particle graph from the pose of the probe, and
\* updateSkeletonAnglesFromPhysics reads the angles back before any tick.
ReadBack ==
    /\ probe.kind = "pose"
    /\ ~probe.done
    /\ LET graph == initializeCollapseFromCurrentPose(probe.in.angle, navelOffsetX,
                                                      navelOffsetY, [x |-> 0, y |-> 0])
       IN  probe' = [probe EXCEPT
                        !.done = TRUE,
                        !.out = updateSkeletonAnglesFromPhysics(graph.points, graph.map)]
    /\ UNCHANGED <<ctx, heapVars, showCharacterSheet, motionMode, lastAdjustedGroup,
                   activeControl, navelOffsetX, navelOffsetY, lockedBones, lockedChainCache,
                   physicsVars, schedulerVars, effectDirty, ops, ticks, sinceStart, interrupted>>

\* setV(ns) of isolateGroup: bone.visible = g.includes(bone.name) for every bone.
IsolatedVisibility(groupName) ==
    [b \in Bones |-> b \in Range(anatomicalGroups[groupName])]

\* isolateGroup(boneName), fired by the timer of onPress for the next press of
\* the probe.
isolateGroup(boneName) ==
    /\ probe.kind = "press"
    /\ ~probe.done
    /\ boneName = probe.in.boneNames[probe.out + 1]
    /\ probe' = [probe EXCEPT !.out = probe.out + 1,
                              !.done = (probe.out + 1 = Len(probe.in.boneNames))]
    /\ IF boneName \notin DOMAIN boneToGroupMap
       THEN UNCHANGED <<heapVars, effectDirty>>
       ELSE /\ Commit([deepClone(heap, skeleton) EXCEPT
                          ![FreshCell].visible = IsolatedVisibility(boneToGroupMap[boneName])],
                      FreshCell, animationState)
            /\ effectDirty' = TRUE
    /\ UNCHANGED <<ctx, showCharacterSheet, motionMode, lastAdjustedGroup,
                   activeControl, navelOffsetX, navelOffsetY, lockedBones, lockedChainCache,
                   physicsVars, schedulerVars, ops, ticks, sinceStart, interrupted>>

KernelNext ==
    \/ SolveChain
    \/ SettleStick
    \/ ReadBack
    \/ \E boneName \in PressNames : isolateGroup(boneName)

Kernels ==
    KernelInit /\ [][KernelNext]_vars


(* -------------------------------- properties --------------------------- *)

\* The local angles of the live skeleton, before and after a step.
LiveAngles ==
    heap[skeleton].angle

LiveAnglesAfter ==
    heap'[skeleton'].angle

\* The step is a gameLoop callback (a scheduler tick).
TickStep ==
    ticks' = ticks + 1

\* C1: after startAnimation(target, mode, N), the N-th tick that follows with no
\* startAnimation or resetToTPose in between leaves every live angle equal to the
\* target's, the transition inactive and motionMode = mode; an earlier tick
\* leaves the transition active and the mode uncommitted.
C1_BlendEndsOnTarget ==
    [][(TickStep /\ animationState.active) =>
           IF sinceStart' = animationState.durationFrames
           THEN /\ LiveAnglesAfter = heap[animationState.targetSkeleton].angle
                /\ ~animationState'.active
                /\ motionMode' = animationState.targetMode
           ELSE /\ sinceStart' < animationState.durationFrames
                /\ animationState'.active
                /\ motionMode' = motionMode]_vars

\* A transition to T-Pose of MaxDuration frames, started as the only UI event,
\* has run its last tick.
C1_Witness ==
    /\ ops = 1
    /\ animationState.durationFrames = MaxDuration
    /\ sinceStart = MaxDuration
    /\ ~animationState.active
    /\ animationState.targetMode = "T-Pose"
    /\ motionMode = "T-Pose"
    /\ LiveAngles = heap[initialSkeleton].angle

\* The bones on the path from a locked effector up to the root (excluded) that
\* are not themselves locked effectors.
InLockedChain(name) ==
    name \in buildLockedChainCache(lockedBones) \ DOMAIN lockedBones

\* C2: setBoneAngle(name, value) leaves the live skeleton as it is when name is
\* in the locked chain of a locked effector and is not itself a locked effector.
C2_LockedChainEditIsNoOp ==
    [][\A name \in EditBones, v \in EditValues :
           (setBoneAngle(name, v[1], v[2]) /\ InLockedChain(name))
               => LiveAnglesAfter = LiveAngles]_vars

\* The step is a manual bone edit: setBoneAngle, setAnchorValue of Global
\* Rotation, or an arrow key.
ManualEdit ==
    \/ \E name \in EditBones, v \in EditValues : setBoneAngle(name, v[1], v[2])
    \/ \E v \in RotationValues : setAnchorRotation(v[1], v[2])
    \/ handleKeyDown("ArrowUp")

\* C3: while a transition is active or the mode is Collapse, no manual bone edit
\* changes a bone angle of the live skeleton.
C3_EditsDisabledWhileBusy ==
    [][((animationState.active \/ motionMode = "Collapse") /\ ManualEdit)
           => LiveAnglesAfter = LiveAngles]_vars

\* C4: a tick runs the blend step iff the transition is active when the tick
\* starts, and then no particle moves; otherwise it runs the physics step (in
\* Collapse mode every particle's old position becomes the position it had), and
\* then the animation state is unchanged.
C4_BlendOrPhysics ==
    [][TickStep =>
           IF animationState.active
           THEN /\ physicsPoints' = physicsPoints
                /\ \/ animationState'.currentFrame = animationState.currentFrame + 1
                   \/ ~animationState'.active
           ELSE /\ animationState' = animationState
                /\ motionMode = "Collapse" =>
                       /\ DOMAIN physicsPoints' = DOMAIN physicsPoints
                       /\ \A i \in DOMAIN physicsPoints :
                              /\ physicsPoints'[i].oldX = physicsPoints[i].x
                              /\ physicsPoints'[i].oldY = physicsPoints[i].y]_vars

\* A blend tick has run in Collapse mode over particles that were moving.
C4_Witness ==
    /\ animationState.active
    /\ animationState.currentFrame = 1
    /\ sinceStart = 1
    /\ motionMode = "Collapse"
    /\ \E i \in DOMAIN physicsPoints : physicsPoints[i].y # physicsPoints[i].oldY

\* C5: once setCollapseMode has interrupted a transition, that transition never
\* commits its targetMode: the mode stays Collapse until another mode switch or
\* a new startAnimation.
C5_InterruptedNeverCommits ==
    interrupted => motionMode = "Collapse"

\* The resolved pose of the live skeleton at the current ground offsets.
LivePose ==
    ResolvePose(LiveAngles, navelOffsetX, navelOffsetY)

\* C6: toggleLock(name) leaves the lock set as it is for a name outside the
\* whitelist, removes the entry of a locked name, and gives an unlocked name an
\* entry whose pin is the resolved end of the effector's parent bone (not the
\* effector's own tip), from the live angles and the ground offsets of the call;
\* every other entry is unchanged and the keys stay inside the whitelist.
C6_ToggleLock ==
    [][\A boneName \in LockNames :
           toggleLock(boneName) =>
               /\ DOMAIN lockedBones' \subseteq {"L_Foot", "R_Foot", "L_Hand", "R_Hand"}
               /\ DOMAIN lockedBones' \ {boneName} = DOMAIN lockedBones \ {boneName}
               /\ \A k \in DOMAIN lockedBones \ {boneName} : lockedBones'[k] = lockedBones[k]
               /\ IF boneName \notin {"L_Foot", "R_Foot", "L_Hand", "R_Hand"}
                  THEN lockedBones' = lockedBones
                  ELSE IF boneName \in DOMAIN lockedBones
                  THEN boneName \notin DOMAIN lockedBones'
                  ELSE /\ boneName \in DOMAIN lockedBones'
                       /\ lockedBones'[boneName].position = LivePose[ParentTable[boneName]].end
                       /\ lockedBones'[boneName].position # LivePose[boneName].end]_vars

\* L_Foot has just been locked, with the figure raised off the ground and
\* another effector already locked.
C6_Witness ==
    /\ effectDirty
    /\ navelOffsetY # 0
    /\ "R_Hand" \in DOMAIN lockedBones
    /\ "L_Foot" \in DOMAIN lockedBones
    /\ lockedBones["L_Foot"].position = LivePose["L_Ankle_Joint"].end
    /\ lockedBones["L_Foot"].position.y # FloorY

\* C7: whenever the keyboard guard evaluates isBoneInLockedChain, the answer is
\* whether the bone lies on the path from an effector of the current lock set
\* up to the root (excluded): the locked-chain cache is not stale.
C7_CacheNeverStale ==
    (ctx /\ ~effectDirty /\ motionMode # "Collapse" /\ ~animationState.active
         /\ activeControl # "null")
        => (isBoneInLockedChain(activeControl, FALSE) <=> InLockedChain(activeControl))

\* The step is a call of startAnimation.
StartAnimationStep ==
    /\ ops' = ops + 1
    /\ sinceStart' = 0
    /\ animationState'.active
    /\ animationState'.currentFrame = 0
    /\ \E target \in Targets, n \in 1..MaxDuration : startAnimation(target, n)

\* C8: the T-Pose and Tension reference skeletons keep the angles they had at
\* construction, and no step but startAnimation changes the start snapshot of
\* the transition.
C8_SnapshotsNeverAlias ==
    [][/\ heap'[initialSkeleton] = createVisibleSkeleton
       /\ heap'[tensionPoseSkeleton] = createTensionPose
       /\ (animationState.startSkeleton # NULL /\ ~StartAnimationStep)
              => heap'[animationState'.startSkeleton] = heap[animationState.startSkeleton]]_vars

\* The live skeleton was reset in place after the snapshot of an edited pose.
C8_Witness ==
    /\ animationState.active
    /\ sinceStart = 0
    /\ heap[animationState.startSkeleton].angle["L_Calf"] = 45
    /\ LiveAngles["L_Calf"] = 0

\* C9 as stated: outside Collapse mode the particle list, the stick list and
\* the bone-to-particle map are empty.
C9_GraphDiscarded ==
    motionMode # "Collapse"
        => (physicsPoints = <<>> /\ physicsSticks = <<>> /\ boneToPointsMap = <<>>)

\* C9 amended: a step that ends outside Collapse mode leaves the particle graph
\* as it is, and a step that enters Collapse mode rebuilds it from the live
\* pose, every bone's particle pair at the bone's resolved start and end and
\* every particle at rest.
C9_GraphInertOutsideCollapse ==
    [][/\ motionMode' # "Collapse" => UNCHANGED physicsVars
       /\ (motionMode # "Collapse" /\ motionMode' = "Collapse") =>
              /\ LET pose == LivePose
                 IN  \A b \in Bones :
                         /\ physicsPoints'[boneToPointsMap'[b].p0].x = pose[b].start.x
                         /\ physicsPoints'[boneToPointsMap'[b].p0].y = pose[b].start.y
                         /\ physicsPoints'[boneToPointsMap'[b].p1].x = pose[b].end.x
                         /\ physicsPoints'[boneToPointsMap'[b].p1].y = pose[b].end.y
              /\ \A i \in DOMAIN physicsPoints' :
                     /\ physicsPoints'[i].oldX = physicsPoints'[i].x
                     /\ physicsPoints'[i].oldY = physicsPoints'[i].y]_vars

\* Collapse mode has been left after the particles fell, and the graph is kept.
C9_Witness ==
    /\ motionMode # "Collapse"
    /\ \E i \in DOMAIN physicsPoints : physicsPoints[i].y # physicsPoints[i].oldY

\* Math.atan2 of the particle pair of bone b.
WorldAngle(b) ==
    Atan2(physicsPoints[boneToPointsMap[b].p1].y - physicsPoints[boneToPointsMap[b].p0].y,
          physicsPoints[boneToPointsMap[b].p1].x - physicsPoints[boneToPointsMap[b].p0].x)

\* C10: startAnimation in Collapse mode stores as start snapshot the pose of the
\* particles: each bone's angle is the world angle of its particle pair minus
\* that of its parent's pair, the Navel's own pair standing for its parent's.
C10_StartFromParticles ==
    [][(motionMode = "Collapse" /\ StartAnimationStep) =>
           \A b \in Bones :
               heap'[animationState'.startSkeleton].angle[b] =
                   WorldAngle(b) - WorldAngle(IF b = Root THEN Root ELSE ParentTable[b])]_vars

\* startAnimation has just run in Collapse mode over particles that have fallen.
C10_Witness ==
    /\ motionMode = "Collapse"
    /\ animationState.active
    /\ ~interrupted
    /\ sinceStart = 0
    /\ \E i \in DOMAIN physicsPoints : physicsPoints[i].y # physicsPoints[i].oldY
    /\ heap[animationState.startSkeleton].angle # createTensionPose.angle

\* The (parent, child) bone pairs of the skeleton.
ParentChildPairs ==
    {<<ParentTable[c], c>> : c \in Bones \ {Root}}

\* C11: once the particle graph is built, the end particle of every parent bone
\* is the same particle as the start particle of each of its children, and the
\* particles of every bone stay in the particle list, in every later state
\* (physics ticks included).
C11_JointsShareParticle ==
    boneToPointsMap # <<>> =>
        /\ \A pc \in ParentChildPairs :
               boneToPointsMap[pc[1]].p1 = boneToPointsMap[pc[2]].p0
        /\ \A b \in DOMAIN boneToPointsMap :
               {boneToPointsMap[b].p0, boneToPointsMap[b].p1} \subseteq DOMAIN physicsPoints

\* A physics tick has moved the shared particle of the L_Hip / L_Calf joint.
C11_Witness ==
    /\ motionMode = "Collapse"
    /\ ticks >= 2
    /\ boneToPointsMap["L_Hip"].p1 = boneToPointsMap["L_Calf"].p0
    /\ physicsPoints[boneToPointsMap["L_Calf"].p0].y
           # physicsPoints[boneToPointsMap["L_Calf"].p0].oldY

\* The numeric tolerance of a position, 4 px: the solver's angles are whole
\* degrees here.
Tolerance ==
    4 * PX

Near(p, q) ==
    Abs(p.x - q.x) <= Tolerance /\ Abs(p.y - q.y) <= Tolerance

\* The step is the effect's draw() of the interactive model.
InteractiveRender ==
    /\ effectDirty
    /\ ~effectDirty'
    /\ ~showCharacterSheet
    /\ ~animationState.active
    /\ motionMode # "Collapse"

\* The pin is within reach of the two-bone chain of the effector in the live pose.
PinReachable(name, pin) ==
    LET chain == getIKChainNames(name)
        chainRootPos == LivePose[findParentBone(chain[1])].end
        l1 == SKELETON_TREE[chain[1]].length
        l2 == SKELETON_TREE[chain[2]].length
        distSq == (pin.x - chainRootPos.x) * (pin.x - chainRootPos.x)
                      + (pin.y - chainRootPos.y) * (pin.y - chainRootPos.y)
    IN  distSq <= (l1 + l2) * (l1 + l2) /\ distSq >= (l1 - l2) * (l1 - l2)

\* The resolved pose of the frame skeleton an interactive render draws.
FramePose ==
    ResolvePose(FrameAngles(LiveAngles, navelOffsetX, navelOffsetY, lockedBones),
                navelOffsetX, navelOffsetY)

\* C12 as stated: in the interactive render that follows toggleLock, every
\* locked effector whose pin (as the lock set holds it when the render starts)
\* is reachable is drawn with its world end position at the pin, within the
\* tolerance; the effector's start, the point the solver drives, is accepted too.
C12_LockRoundTrip ==
    [][(InteractiveRender /\ lockedBones # <<>>) =>
           LET frame == FramePose
           IN  \A k \in DOMAIN lockedBones :
                   PinReachable(k, lockedBones[k].position) =>
                       \/ Near(frame[k].end, lockedBones[k].position)
                       \/ Near(frame[k].start, lockedBones[k].position)]_vars

\* solveTwoBoneIK has run on the chain of the probe.
Solved ==
    probe.kind = "ik" /\ probe.done

\* Squared distance from the chain root to the target of the probe.
ProbeDistSq ==
    probe.in.dx * probe.in.dx + probe.in.dy * probe.in.dy

\* The chain of the probe has l1 = l2 = 100 px and its target is 100 px from
\* the chain root.
UnitChainAtUnitDistance ==
    /\ probe.in.l1 = 100 * PX
    /\ probe.in.l2 = 100 * PX
    /\ ProbeDistSq = (100 * PX) * (100 * PX)

\* C13 as stated: with l1 = l2 = 100 and the target at distance 100 the solver
\* writes bone2.angle = bendDirection * (0 - pi).
C13_FoldedFullyBack ==
    (Solved /\ UnitChainAtUnitDistance)
        => probe.out.bone2 = probe.in.bendDirection * (0 - PI)

\* C13 amended: with l1 = l2 = 100 and the target at distance 100 the interior
\* angle is acos(1/2) = pi/3: bone2.angle = bendDirection * (pi/3 - pi), and
\* bone1's world angle is the direction to the target turned by
\* bendDirection * pi/3.
C13_EquilateralBend ==
    (Solved /\ UnitChainAtUnitDistance)
        => /\ probe.out.bone2 = probe.in.bendDirection * (PI \div 3 - PI)
           /\ probe.out.bone1 + probe.in.parentGlobalAngle
                  = Atan2(probe.in.dy, probe.in.dx) + probe.in.bendDirection * (PI \div 3)

\* The 100 / 100 chain has been solved for the target (60, 80), bending left.
C13_Witness ==
    /\ Solved
    /\ UnitChainAtUnitDistance
    /\ probe.in.dx = 60 * PX
    /\ probe.in.dy = 80 * PX
    /\ probe.in.bendDirection = -1
    /\ probe.out.bone2 = 2 * (PI \div 3)

\* (l1 + l2)^2 of the probe.
ProbeReachSq ==
    (probe.in.l1 + probe.in.l2) * (probe.in.l1 + probe.in.l2)

\* The world angle w points from the chain root at the target of the probe, to
\* within one degree.
PointsAtTarget(w) ==
    /\ probe.in.dx * Cos(w) + probe.in.dy * Sin(w) > 0
    /\ Abs(probe.in.dx * Sin(w) - probe.in.dy * Cos(w)) <= 175 * Sqrt(ProbeDistSq)

\* C14: for a target at distance d > l1 + l2 the solver writes defined angles
\* that extend the limb fully, bone2.angle = 0 and bone1's world angle the
\* direction from the chain root to the target; at d = l1 + l2 the reachable
\* branch writes the same angles.
C14_OutOfReachExtends ==
    (Solved /\ ProbeDistSq >= ProbeReachSq)
        => /\ probe.out.bone1 # NaN
           /\ probe.out.bone2 = 0
           /\ probe.out.bone1 + probe.in.parentGlobalAngle = Atan2(probe.in.dy, probe.in.dx)
           /\ PointsAtTarget(probe.out.bone1 + probe.in.parentGlobalAngle)

\* The 100 / 100 chain has been solved for a target exactly at its reach, 200,
\* under a parent turned by a quarter turn.
C14_Witness ==
    /\ Solved
    /\ probe.in.l1 = 100 * PX
    /\ probe.in.l2 = 100 * PX
    /\ probe.in.dx = 120 * PX
    /\ probe.in.dy = 160 * PX
    /\ probe.in.parentGlobalAngle = PI \div 2
    /\ ProbeDistSq = ProbeReachSq
    /\ probe.out.bone2 = 0

\* The relaxation iterations have run on the stick of the probe.
Settled ==
    probe.kind = "stick" /\ probe.done

\* Distance between the two particles of a stick probe.
Distance(points) ==
    Sqrt((points[2].x - points[1].x) * (points[2].x - points[1].x)
             + (points[2].y - points[1].y) * (points[2].y - points[1].y))

\* C15: a single stick of rest length L with unpinned ends 2 L apart has, after
\* the relaxation iterations of one tick, its ends at a distance d' with
\* |d' - L| < L.
C15_StretchedStickSettles ==
    (Settled /\ Distance(probe.in.points) = 2 * probe.in.length)
        => Abs(Distance(probe.out) - probe.in.length) < probe.in.length

\* The stick of the length of a calf, stretched along (3, 4), has settled at
\* its rest length.
C15_Witness ==
    /\ Settled
    /\ probe.in.length = SKELETON_TREE["L_Calf"].length
    /\ Distance(probe.in.points) = 2 * probe.in.length
    /\ 5 * (probe.in.points[2].x - probe.in.points[1].x) = 3 * 2 * probe.in.length
    /\ ~probe.in.points[1].isPinned
    /\ ~probe.in.points[2].isPinned
    /\ Abs(Distance(probe.out) - probe.in.length) <= 1

\* The bones listed in the control group named g, {} for an unknown name.
ListedBones(g) ==
    UNION {Range(controlGroups[k]) : k \in {k \in DOMAIN GroupNames : GroupNames[k] = g}}

\* The angles of the reference pose of a mode.
ReferenceAngles(mode) ==
    IF mode = "Tension" THEN createTensionPose.angle ELSE createVisibleSkeleton.angle

\* C16: resetGroup(g) for a known group gives every bone listed in g its angle
\* in the reference pose of the current mode and removes the locks of the
\* effectors listed in g; every other angle and every other lock entry stays;
\* for an unknown group name no field changes.
C16_ResetGroup ==
    [][\A g \in ResetNames :
           resetGroup(g) =>
               IF g \in Range(GroupNames)
               THEN /\ \A b \in Bones :
                          LiveAnglesAfter[b] = IF b \in ListedBones(g)
                                               THEN ReferenceAngles(motionMode)[b]
                                               ELSE LiveAngles[b]
                    /\ DOMAIN lockedBones' = DOMAIN lockedBones \ ListedBones(g)
                    /\ \A k \in DOMAIN lockedBones' : lockedBones'[k] = lockedBones[k]
               ELSE UNCHANGED <<heapVars, showCharacterSheet, motionMode, lastAdjustedGroup,
                                activeControl, navelOffsetX, navelOffsetY, lockedBones,
                                lockedChainCache, physicsVars, schedulerVars, effectDirty>>]_vars

\* resetGroup('Left Leg') has run in Tension mode after L_Foot was locked and
\* L_Calf was edited: the leg is back in the Tension pose and the lock is gone
\* (the cache still shows it until the next render).
C16_Witness ==
    /\ ops = 3
    /\ motionMode = "Tension"
    /\ ~animationState.active
    /\ lastAdjustedGroup = "Left Leg"
    /\ "L_Foot" \in lockedChainCache
    /\ lockedBones = <<>>
    /\ effectDirty
    /\ LiveAngles = createTensionPose.angle

\* The bone and its ancestors: the bones whose subtree holds it.
SelfAndAncestors(bone) ==
    {b \in Bones : bone \in Range(PreOrder(b))}

\* C17: right after a rebuild of the locked-chain cache, the cache is the union,
\* over the locked effectors, of the effector and its ancestors below the root;
\* Navel is not in it, and it is empty when no effector is locked.
C17_CacheAfterRebuild ==
    [][InteractiveRender =>
           /\ lockedChainCache' =
                  UNION {SelfAndAncestors(e) \ {Root} : e \in DOMAIN lockedBones'}
           /\ Root \notin lockedChainCache'
           /\ (lockedBones' = <<>> => lockedChainCache' = {})]_vars

\* The cache was rebuilt with L_Foot locked: it holds the leg, its zero-length
\* joints and Pelvis.
C17_Witness ==
    /\ ~effectDirty
    /\ ~showCharacterSheet
    /\ ~animationState.active
    /\ motionMode # "Collapse"
    /\ DOMAIN lockedBones = {"L_Foot"}
    /\ {"L_Foot", "L_Calf", "L_Hip", "Pelvis"} \subseteq lockedChainCache
    /\ \E b \in lockedChainCache : SKELETON_TREE[b].length = 0

\* The stick the bone stands for: its two particles and its length.
StickOf(bone) ==
    [p0 |-> boneToPointsMap[bone].p0, p1 |-> boneToPointsMap[bone].p1,
     length |-> SKELETON_TREE[bone].length]

\* The bones of nonzero length.
LongBones ==
    {b \in Bones : SKELETON_TREE[b].length > 0}

\* C18: while the mode is Collapse the bone-to-particle map has an entry for
\* every bone, and the sticks are, one for one, the bones of nonzero length,
\* each with its bone's length and its bone's two particles; no stick stands
\* for a zero-length bone.
C18_GraphMatchesSkeleton ==
    motionMode = "Collapse" =>
        /\ DOMAIN boneToPointsMap = Bones
        /\ Len(physicsSticks) = Cardinality(LongBones)
        /\ \A b \in LongBones :
               Cardinality({i \in DOMAIN physicsSticks : physicsSticks[i] = StickOf(b)})
                   = Cardinality({c \in LongBones : StickOf(c) = StickOf(b)})
        /\ \A i \in DOMAIN physicsSticks :
               /\ physicsSticks[i].length > 0
               /\ \E b \in LongBones : physicsSticks[i] = StickOf(b)

\* Collapse mode after a physics tick has moved the particles, engaged on a pose
\* other than the initial one.
C18_Witness ==
    /\ motionMode = "Collapse"
    /\ \E i \in DOMAIN physicsPoints : physicsPoints[i].y # physicsPoints[i].oldY
    /\ LiveAngles # createTensionPose.angle
    /\ \E b \in Bones : SKELETON_TREE[b].length = 0 /\ b \in DOMAIN boneToPointsMap

\* At most one gameLoop callback is pending, and one is pending while a
\* transition is active or the mode is Collapse.
OnePending ==
    /\ Cardinality(frameQueue) <= 1
    /\ (animationState.active \/ motionMode = "Collapse") => Cardinality(frameQueue) = 1

\* No UI event is left to restart the transition, and the ticks left cover the
\* frames the transition still needs.
LeftToRun ==
    /\ ctx
    /\ ops = MaxOps
    /\ animationState.active
    /\ ticks + (animationState.durationFrames - animationState.currentFrame) <= MaxTicks

\* C19: the scheduler never holds more than one pending gameLoop callback,
\* it holds exactly one while a transition is active or the mode is Collapse,
\* and an active transition that is left to run completes.
C19_OneCallbackDrivesTransition ==
    /\ []OnePending
    /\ (LeftToRun ~> ~animationState.active)

\* A transition was restarted while its callback was pending, and Collapse was
\* engaged on top of it: still one callback.
C19_Witness ==
    /\ ops = 3
    /\ ticks >= 1
    /\ animationState.active
    /\ motionMode = "Collapse"
    /\ Cardinality(frameQueue) = 1
    /\ animationFrameId \in frameQueue

\* The step is the terminal tick of a transition: it commits the target mode.
TerminalTick ==
    /\ TickStep
    /\ animationState.active
    /\ ~animationState'.active

\* C20: when a transition completes, the scheduler loop is stopped: after the
\* terminal tick no gameLoop callback is pending and animationFrameId is null
\* (a tick runs only from a pending callback, so none follows until
\* startAnimation or setCollapseMode requests one).
C20_LoopStopsOnCompletion ==
    [][TerminalTick => (frameQueue' = {} /\ animationFrameId' = NULL)]_vars

\* C21: an interactive render is read-only on persistent state: after
\* drawInteractiveModel every angle of the live skeleton and every stored lock
\* entry (both coordinates of each pin) are as they were before the render.
C21_RenderReadOnly ==
    [][InteractiveRender => (LiveAnglesAfter = LiveAngles /\ lockedBones' = lockedBones)]_vars

\* C22: solveTwoBoneIK writes well-defined finite angles to bone1 and bone2 for
\* every target, the one on the chain root (d = 0) of a chain with l1 = l2
\* included.
C22_AnglesAlwaysDefined ==
    Solved => (probe.out.bone1 # NaN /\ probe.out.bone2 # NaN)

\* The pose probe has been read back.
ReadBackDone ==
    probe.kind = "pose" /\ probe.done

\* C23: building the particle graph from a pose and reading the angles back from
\* the unmoved particles gives a skeleton whose resolved start and end point of
\* every bone are those of the pose, for any Navel rotation and joint angles.
C23_PoseRoundTrip ==
    ReadBackDone =>
        LET before == ResolvePose(probe.in.angle, navelOffsetX, navelOffsetY)
            after == ResolvePose(probe.out, navelOffsetX, navelOffsetY)
        IN  \A b \in Bones : after[b].start = before[b].start /\ after[b].end = before[b].end

\* A rotated pose with bent limbs has been read back, and the local angles of
\* the Navel and of a zero-length joint bone came back different.
C23_Witness ==
    /\ ReadBackDone
    /\ probe.in.angle["Navel"] = 30
    /\ probe.in.angle["L_Calf"] = 45
    /\ probe.in.angle["Neck"] = 13
    /\ probe.out["Navel"] # probe.in.angle["Navel"]
    /\ probe.out["L_Hip_Base_Joint"] # probe.in.angle["L_Hip_Base_Joint"]

\* The bones of the left and of the right side of the body.
LeftSide ==
    {"L_Clavicle", "L_Shoulder", "L_Forearm", "L_Hand",
     "L_Hip_Joint", "L_Hip_Base_Joint", "L_Hip", "L_Calf", "L_Ankle_Joint", "L_Foot"}

RightSide ==
    {"R_Clavicle", "R_Shoulder", "R_Forearm", "R_Hand",
     "R_Hip_Joint", "R_Hip_Base_Joint", "R_Hip", "R_Calf", "R_Ankle_Joint", "R_Foot"}

\* The bones of a limb: those boneToGroupMap sends to an arm or a leg.
LimbBones ==
    {b \in DOMAIN boneToGroupMap : boneToGroupMap[b] # "CORE"}

\* The visible bones of the live skeleton after the step.
VisibleAfter ==
    {c \in Bones : heap'[skeleton'].visible[c]}

\* C24: isolating from a bone of a limb leaves the bones of that limb visible
\* (after R_Hip, R_Calf or R_Foot: R_Hip, R_Calf and R_Foot) and no bone of the
\* other side of the body (in particular not L_Calf); likewise for the left
\* leg and both arms.
C24_IsolateShowsLimb ==
    [][\A b \in LimbBones :
           isolateGroup(b) =>
               /\ {c \in LimbBones : boneToGroupMap[c] = boneToGroupMap[b]} \subseteq VisibleAfter
               /\ VisibleAfter \cap (IF b \in LeftSide THEN RightSide ELSE LeftSide) = {}]_vars

====
